---------------------------- MODULE Spec2Model ----------------------------
(***************************************************************************)
(* Deloton bike pipeline: the heart-rate zone calculator                   *)
(* (pipeline/validate_heart_rate.py, dashboard/utilities.py), the anomaly  *)
(* streak tracker that feeds send_email, and the record builders of        *)
(* pipeline/transform.py.                                                  *)
(*                                                                         *)
(* Python values: None is the empty tuple, a present value x is <<x>>.     *)
(* A date is <<year, month, day>>.                                         *)
(***************************************************************************)
EXTENDS Integers, Sequences, FiniteSets, TLC

VARIABLES
    today,          \* the calendar date (datetime.utcnow() read now)
    default_date,   \* calculate_age's default current_date, per module
    call,           \* the last heart-rate-zone call and what it returned
    streak,         \* tracker: per ride, the run of abnormal heart rates
    history,        \* per ride, the readings processed so far
    alerts,         \* the payloads handed to send_email, in order
    now,            \* datetime.now() of the transformation process
    built           \* the last builder call: its input and what came of it

vars == <<today, default_date, call, streak, history, alerts, now, built>>

None == <<>>
Some(x) == <<x>>

----------------------------------------------------------------------------
(* Bounds of the model *)

\* the oldest rider drawn is MaxAge years old at StartYear
MaxAge == 100
\* the year the processes start in
StartYear == 2024
\* readings processed over all rides
MaxReadings == 6

----------------------------------------------------------------------------
(* Dates *)

Year(d) == d[1]
Month(d) == d[2]
Day(d) == d[3]

\* Python's tuple order on (month, day)
MonthDayLess(a, b) ==
    \/ Month(a) < Month(b)
    \/ Month(a) = Month(b) /\ Day(a) < Day(b)

DateLess(a, b) ==
    \/ Year(a) < Year(b)
    \/ Year(a) = Year(b) /\ MonthDayLess(a, b)

\* the dates the clock takes
ClockDates ==
    { <<StartYear, 3, 10>>, <<StartYear, 9, 1>>, <<StartYear + 1, 3, 10>> }

BirthMonthDays == { <<2, 20>>, <<3, 9>>, <<3, 10>>, <<3, 11>>, <<4, 5>> }

Birthdates ==
    { <<y, md[1], md[2]>> : y \in (StartYear - MaxAge)..(StartYear - 1),
                            md \in BirthMonthDays }

Genders == { Some("male"), Some("female"), Some("other"), None, Some("Male") }

RiderDetails == [birthdate : Birthdates, gender : Genders]

----------------------------------------------------------------------------
(* calculate_age and the heart-rate zone, as the two modules compute them *)

BoolToInt(b) == IF b THEN 1 ELSE 0

\* current_date.year - birthdate.year - ((month, day) < (month, day))
calculate_age(birthdate, current_date) ==
    Year(current_date) - Year(birthdate)
        - BoolToInt(MonthDayLess(current_date, birthdate))

\* Python 3's round() of the float num/den: ties go to the even integer.
\* The floats here are 206 - 0.88*age and 208 - 0.7*age: their binary error is
\* below 1e-13, the exact values are multiples of 0.02 and 0.1, and a tie
\* x.5 is itself a float, so the rounding of the exact value is the result.
PyRound(num, den) ==
    LET q == num \div den
        r == num % den
    IN  IF 2 * r < den THEN q
        ELSE IF 2 * r > den THEN q + 1
        ELSE IF q % 2 = 0 THEN q ELSE q + 1

\* pipeline/validate_heart_rate.py; current_date is calculate_age's default
calculate_max_heart_rate(rider_details, current_date) ==
    LET age == calculate_age(rider_details.birthdate, current_date)
        gender == rider_details.gender
    IN  IF gender \in {Some("female"), Some("other"), None}
        THEN PyRound(20600 - 88 * age, 100)
        ELSE IF gender = Some("male") /\ age < 40
        THEN 220 - age
        ELSE PyRound(2080 - 7 * age, 10)

calculate_min_heart_rate_39_exclusive(rider_details, current_date) ==
    LET age == calculate_age(rider_details.birthdate, current_date)
        gender == rider_details.gender
    IN  IF gender \in {Some("female"), Some("other"), None}
        THEN IF 18 <= age /\ age < 39 THEN 45
             ELSE IF 40 <= age /\ age <= 64 THEN 52
             ELSE 57
        ELSE IF 18 <= age /\ age < 39 THEN 40
             ELSE IF 40 <= age /\ age <= 64 THEN 47
             ELSE 52

calculate_min_heart_rate_young_as_adults(rider_details, current_date) ==
    LET age == calculate_age(rider_details.birthdate, current_date)
        gender == rider_details.gender
    IN  IF gender \in {Some("female"), Some("other"), None}
        THEN IF age <= 39 THEN 45
             ELSE IF 40 <= age /\ age <= 64 THEN 52
             ELSE 57
        ELSE IF age <= 39 THEN 40
             ELSE IF 40 <= age /\ age <= 64 THEN 47
             ELSE 52

calculate_min_heart_rate(rider_details, current_date) ==
    LET age == calculate_age(rider_details.birthdate, current_date)
        gender == rider_details.gender
    IN  IF gender \in {Some("female"), Some("other"), None}
        THEN IF 18 <= age /\ age <= 39 THEN 45
             ELSE IF 40 <= age /\ age <= 64 THEN 52
             ELSE 57
        ELSE IF 18 <= age /\ age <= 39 THEN 40
             ELSE IF 40 <= age /\ age <= 64 THEN 47
             ELSE 52

\* dashboard/utilities.py: the same three functions over user_details,
\* whose [6] is the birthdate, [5] the gender and [7] the heart rate
dashboard_calculate_age(birthdate, current_date) ==
    Year(current_date) - Year(birthdate)
        - BoolToInt(MonthDayLess(current_date, birthdate))

dashboard_calculate_max_heart_rate(user_details, current_date) ==
    LET age == dashboard_calculate_age(user_details.birthdate, current_date)
        gender == user_details.gender
    IN  IF gender \in {Some("female"), Some("other"), None}
        THEN PyRound(20600 - 88 * age, 100)
        ELSE IF gender = Some("male") /\ age < 40
        THEN 220 - age
        ELSE PyRound(2080 - 7 * age, 10)

dashboard_calculate_min_heart_rate(user_details, current_date) ==
    LET age == dashboard_calculate_age(user_details.birthdate, current_date)
        gender == user_details.gender
    IN  IF gender \in {Some("female"), Some("other"), None}
        THEN IF 18 <= age /\ age <= 39 THEN 45
             ELSE IF 40 <= age /\ age <= 64 THEN 52
             ELSE 57
        ELSE IF 18 <= age /\ age <= 39 THEN 40
             ELSE IF 40 <= age /\ age <= 64 THEN 47
             ELSE 52

is_heart_rate_abnormal_strict(user_details, heart_rate, current_date) ==
    LET min_heart_rate ==
            dashboard_calculate_min_heart_rate(user_details, current_date)
        max_heart_rate ==
            dashboard_calculate_max_heart_rate(user_details, current_date)
    IN  (heart_rate = 0)
            \/ ~(min_heart_rate < heart_rate /\ heart_rate < max_heart_rate)

is_heart_rate_abnormal(user_details, heart_rate, current_date) ==
    LET min_heart_rate ==
            dashboard_calculate_min_heart_rate(user_details, current_date)
        max_heart_rate ==
            dashboard_calculate_max_heart_rate(user_details, current_date)
    IN  (heart_rate = 0)
            \/ ~(min_heart_rate <= heart_rate /\ heart_rate <= max_heart_rate)

----------------------------------------------------------------------------
(* The zone calculator called while the date advances *)

NoCall == [fn |-> "none"]

\* heart rates tried on a rider: the dropout value, a mid-range value and
\* the values at and next to the rider's two bounds
HeartRatesFor(user_details, current_date) ==
    LET lo == dashboard_calculate_min_heart_rate(user_details, current_date)
        hi == dashboard_calculate_max_heart_rate(user_details, current_date)
    IN  {0, 1, 100} \cup (lo - 1)..(lo + 1) \cup (hi - 1)..(hi + 1)

TrackerIdle ==
    /\ streak = <<>>
    /\ history = <<>>
    /\ alerts = <<>>

NoBuild == [builder |-> "none"]

StartOfClock == [day |-> 44765, tick |-> 116835]

BuildersIdle ==
    /\ now = StartOfClock
    /\ built = NoBuild

ZoneInit ==
    /\ today \in ClockDates
    /\ default_date = [pipeline |-> today, dashboard |-> today]
    /\ call = NoCall
    /\ TrackerIdle
    /\ BuildersIdle

\* the date moves on while the processes keep running
AdvanceDate ==
    /\ call = NoCall
    /\ \E d \in ClockDates : DateLess(today, d) /\ today' = d
    /\ UNCHANGED <<default_date, call, streak, history, alerts, now, built>>

\* one rider's bounds, from the pipeline's and from the dashboard's functions
CallZone ==
    /\ call = NoCall
    /\ \E rider \in RiderDetails :
         call' = [fn |-> "zone",
                  rider |-> rider,
                  at |-> today,
                  age |-> calculate_age(rider.birthdate, default_date.pipeline),
                  dashboard_age |->
                      dashboard_calculate_age(rider.birthdate,
                                              default_date.dashboard),
                  min |-> calculate_min_heart_rate(rider, default_date.pipeline),
                  max |-> calculate_max_heart_rate(rider, default_date.pipeline),
                  dashboard_min |->
                      dashboard_calculate_min_heart_rate(rider,
                                                         default_date.dashboard),
                  dashboard_max |->
                      dashboard_calculate_max_heart_rate(rider,
                                                         default_date.dashboard)]
    /\ UNCHANGED <<today, default_date, streak, history, alerts, now, built>>

\* the dashboard's check of the current reading
CallAbnormal ==
    /\ call = NoCall
    /\ \E rider \in RiderDetails :
         \E hr \in HeartRatesFor(rider, default_date.dashboard) :
            call' = [fn |-> "abnormal",
                     rider |-> rider,
                     at |-> today,
                     heart_rate |-> hr,
                     min |-> dashboard_calculate_min_heart_rate(
                                 rider, default_date.dashboard),
                     max |-> dashboard_calculate_max_heart_rate(
                                 rider, default_date.dashboard),
                     abnormal |-> is_heart_rate_abnormal(
                                      rider, hr, default_date.dashboard)]
    /\ UNCHANGED <<today, default_date, streak, history, alerts, now, built>>

\* the caller has used the result
Return ==
    /\ call # NoCall
    /\ call' = NoCall
    /\ UNCHANGED <<today, default_date, streak, history, alerts, now, built>>


----------------------------------------------------------------------------
(* send_email (pipeline/validate_heart_rate.py) *)

GENDER_TITLES ==
    [g \in {"male", "female", "other"} |->
        CASE g = "male" -> "Mr"
          [] g = "female" -> "Ms"
          [] g = "other" -> "Mx"]

send_email_fixed_count(rider_details, extreme_hr_counts) ==
    LET gender == rider_details.gender
    IN  IF gender = None \/ gender[1] \notin DOMAIN GENDER_TITLES
        THEN [raised |-> "KeyError"]
        ELSE [raised |-> "",
              title |-> GENDER_TITLES[gender[1]],
              last_name |-> rider_details.last_name,
              count |-> 3,
              readings |-> extreme_hr_counts]

\* the message handed to SES: GENDER_TITLES[gender] raises KeyError for a
\* gender that is no key; the body reports len(extreme_hr_counts) and the
\* readings joined in order
send_email(rider_details, extreme_hr_counts) ==
    LET gender == rider_details.gender
    IN  IF gender = None \/ gender[1] \notin DOMAIN GENDER_TITLES
        THEN [raised |-> "KeyError"]
        ELSE [raised |-> "",
              title |-> GENDER_TITLES[gender[1]],
              last_name |-> rider_details.last_name,
              count |-> Len(extreme_hr_counts),
              readings |-> extreme_hr_counts]

\* the riders and the runs of readings an alert is assembled for
EmailRiders == [gender : Genders, last_name : {"Smith"}]

ExtremeHeartRates == { <<42, 0, 42>>, <<200, 201, 202, 203>> }

\* the pipeline hands a rider and the rider's streak to send_email
CallSendEmail ==
    /\ call = NoCall
    /\ \E rider \in EmailRiders, extreme_hr_counts \in ExtremeHeartRates :
         call' = [fn |-> "send_email",
                  rider |-> rider,
                  at |-> today,
                  extreme_hr_counts |-> extreme_hr_counts,
                  email |-> send_email(rider, extreme_hr_counts)]
    /\ UNCHANGED <<today, default_date, streak, history, alerts, now, built>>

ZoneNext ==
    \/ AdvanceDate
    \/ CallZone
    \/ CallAbnormal
    \/ CallSendEmail
    \/ Return

ZoneSpec == ZoneInit /\ [][ZoneNext]_vars

----------------------------------------------------------------------------
(* The anomaly streak tracker (spec 4.6), one streak per (rider, ride) *)

\* consecutive abnormal readings that warrant an alert
Threshold == 3
\* seconds of a ride during which no alert is sent
WarmUp == 10

Rides == {1, 2}

\* the rider of each ride
RiderOf(ride) ==
    IF ride = 1
    THEN [rider_id |-> 1, birthdate |-> <<StartYear - 30, 3, 9>>,
          gender |-> Some("female"), last_name |-> "Smith",
          email |-> "smith@example.com"]
    ELSE [rider_id |-> 2, birthdate |-> <<StartYear - 30, 3, 9>>,
          gender |-> Some("male"), last_name |-> "Jones",
          email |-> "jones@example.com"]

\* heart rates of the readings: 0 is a dropout, 42 is below the floor of
\* ride 1's rider and within the range of ride 2's, 100 is normal for both
TrackerHeartRates == {0, 42, 100}

\* elapsed times of the readings, at and past the warm-up
ElapsedTimes == {WarmUp, WarmUp + 1}

\* spec 4.5: abnormal when 0 or outside [min_safe_hr, max_safe_hr], the
\* bounds being the pipeline's
reading_is_abnormal(rider_details, heart_rate) ==
    \/ heart_rate = 0
    \/ heart_rate < calculate_min_heart_rate(rider_details,
                                              default_date.pipeline)
    \/ heart_rate > calculate_max_heart_rate(rider_details,
                                              default_date.pipeline)

StreakKey_global(ride) == 1

\* the key a ride's streak is kept under
StreakKey(ride) == ride

Extend_keep_on_normal(run, abnormal, heart_rate) ==
    IF abnormal THEN Append(run, heart_rate) ELSE run

\* Normal -> Watching(1), Watching(n) -> Watching(n+1); a normal reading
\* resets to Normal
Extend(run, abnormal, heart_rate) ==
    IF abnormal THEN Append(run, heart_rate) ELSE <<>>

Fires_at_warm_up(run, elapsed_time) ==
    Len(run) >= Threshold /\ elapsed_time >= WarmUp

\* the count has reached the threshold and the ride is past its warm-up
Fires(run, elapsed_time) ==
    Len(run) >= Threshold /\ elapsed_time > WarmUp

Settle_stay_alerted(run, fired) == run

\* Alerted is not terminal: the tracker is back in Normal once it has emitted
Settle(run, fired) == IF fired THEN <<>> ELSE run

ReadingCount == Len(history[1]) + Len(history[2])

LastElapsed(ride) ==
    IF history[ride] = <<>> THEN 0
    ELSE history[ride][Len(history[ride])].elapsed_time

Init ==
    /\ today = <<StartYear, 3, 10>>
    /\ default_date = [pipeline |-> today, dashboard |-> today]
    /\ call = NoCall
    /\ streak = [k \in Rides |-> <<>>]
    /\ history = [r \in Rides |-> <<>>]
    /\ alerts = <<>>
    /\ BuildersIdle

\* one reading of a ride goes through the tracker
ProcessReading(ride, heart_rate, elapsed_time) ==
    LET key == StreakKey(ride)
        rider == RiderOf(ride)
        abnormal == reading_is_abnormal(rider, heart_rate)
        run == Extend(streak[key], abnormal, heart_rate)
        fired == Fires(run, elapsed_time)
    IN  /\ ReadingCount < MaxReadings
        /\ elapsed_time >= LastElapsed(ride)
        /\ history' = [history EXCEPT ![ride] =
                          Append(@, [heart_rate |-> heart_rate,
                                     elapsed_time |-> elapsed_time])]
        /\ streak' = [streak EXCEPT ![key] = Settle(run, fired)]
        /\ alerts' = IF fired
                     THEN Append(alerts,
                                 [ride |-> ride,
                                  at |-> Len(history[ride]) + 1,
                                  rider_id |-> rider.rider_id,
                                  payload |-> run,
                                  email |-> send_email(rider, run)])
                     ELSE alerts
        /\ UNCHANGED <<today, default_date, call, now, built>>

Next ==
    \E ride \in Rides, heart_rate \in TrackerHeartRates,
       elapsed_time \in ElapsedTimes :
        ProcessReading(ride, heart_rate, elapsed_time)

Spec == Init /\ [][Next]_vars


----------------------------------------------------------------------------
(* Python text, as the builders of pipeline/transform.py use it.           *)
(* A text is a sequence of symbols: the separators " ", ";", "=", ",", "." *)
(* and chunks that hold none of them. A name is spelt one character a      *)
(* symbol, so that slicing counts characters.                              *)

\* s[:n] for 0 <= n
Take(s, n) == [i \in 1..(IF n < Len(s) THEN n ELSE Len(s)) |-> s[i]]

\* s[n:] for 0 <= n
Drop(s, n) == [i \in 1..(IF n < Len(s) THEN Len(s) - n ELSE 0) |-> s[i + n]]

\* s[:stop], a negative stop counting from the end
SliceTo(s, stop) ==
    IF stop >= 0 THEN Take(s, stop)
    ELSE IF Len(s) + stop > 0 THEN Take(s, Len(s) + stop) ELSE <<>>

\* str.rfind(sym): the 0-based index of the last occurrence, or -1
RFind(s, sym) ==
    LET hits == { i \in 1..Len(s) : s[i] = sym }
    IN  IF hits = {} THEN -1
        ELSE (CHOOSE i \in hits : \A j \in hits : j <= i) - 1

\* str.split(sep) for a one-symbol sep: at least one piece, empty pieces kept
RECURSIVE SplitOn(_, _)
SplitOn(s, sep) ==
    LET hits == { i \in 1..Len(s) : s[i] = sep }
    IN  IF hits = {} THEN << s >>
        ELSE LET i == CHOOSE h \in hits : \A j \in hits : h <= j
             IN  << Take(s, i - 1) >> \o SplitOn(Drop(s, i), sep)

\* str.split(): pieces between runs of whitespace, no empty piece
SplitWhitespace(s) == SelectSeq(SplitOn(s, " "), LAMBDA piece : piece # <<>>)

\* str.strip()
RECURSIVE Strip(_)
Strip(s) ==
    IF s # <<>> /\ s[1] = " " THEN Strip(Drop(s, 1))
    ELSE IF s # <<>> /\ s[Len(s)] = " " THEN Strip(Take(s, Len(s) - 1))
    ELSE s

\* sep.join(pieces)
RECURSIVE Join(_, _)
Join(sep, pieces) ==
    IF pieces = <<>> THEN <<>>
    ELSE IF Len(pieces) = 1 THEN pieces[1]
    ELSE pieces[1] \o << sep >> \o Join(sep, Drop(pieces, 1))

LowerSymbol(c) ==
    CASE c = "A" -> "a" [] c = "B" -> "b" [] c = "D" -> "d"
      [] c = "E" -> "e" [] c = "F" -> "f" [] c = "L" -> "l"
      [] c = "M" -> "m" [] c = "R" -> "r" [] c = "S" -> "s"
      [] OTHER -> c

\* str.lower()
Lower(s) == [i \in 1..Len(s) |-> LowerSymbol(s[i])]

\* the integers the chunks of the model spell
IntChunks == {"0", "1", "5", "30", "76", "187", "815", "-1"}

IntOfChunk(c) ==
    CASE c = "0" -> 0 [] c = "1" -> 1 [] c = "5" -> 5 [] c = "30" -> 30
      [] c = "76" -> 76 [] c = "187" -> 187 [] c = "815" -> 815
      [] c = "-1" -> -1

\* int(text): the text, stripped, must spell an integer
PyIntOfText(s) ==
    LET t == Strip(s)
    IN  IF Len(t) = 1 /\ t[1] \in IntChunks
        THEN [raised |-> "", value |-> IntOfChunk(t[1])]
        ELSE [raised |-> "ValueError"]

\* float(text), in tenths: the text, stripped, spells an integer or an
\* integer, a point and one digit
PyFloatOfText(s) ==
    LET t == Strip(s)
    IN  IF Len(t) = 1 /\ t[1] \in IntChunks
        THEN [raised |-> "", value |-> 10 * IntOfChunk(t[1])]
        ELSE IF /\ Len(t) = 3 /\ t[1] \in IntChunks /\ t[2] = "."
                /\ t[3] \in {"0", "5"} /\ IntOfChunk(t[1]) >= 0
        THEN [raised |-> "",
              value |-> 10 * IntOfChunk(t[1]) + IntOfChunk(t[3])]
        ELSE [raised |-> "ValueError"]

----------------------------------------------------------------------------
(* Datetimes: [day |-> days since 1900-01-01, tick |-> half seconds of the *)
(* day]. The model's stamps lie on whole and half seconds.                 *)

TicksPerDay == 172800

DateChunks == {"1899-12-31", "1900-01-01", "2022-07-25", "2022-07-26"}

DayOfChunk(c) ==
    CASE c = "1899-12-31" -> -1
      [] c = "1900-01-01" -> 0
      [] c = "2022-07-25" -> 44765
      [] c = "2022-07-26" -> 44766

TimeChunks == {"00:00:00", "16:13:36", "16:13:37", "16:13:38"}

TickOfChunk(c) ==
    CASE c = "00:00:00" -> 0
      [] c = "16:13:36" -> 116832
      [] c = "16:13:37" -> 116834
      [] c = "16:13:38" -> 116836

FractionChunks == {"000000", "500000"}

TickOfFraction(c) == IF c = "500000" THEN 1 ELSE 0

DatetimeLess(a, b) ==
    \/ a.day < b.day
    \/ a.day = b.day /\ a.tick < b.tick

\* dt - timedelta(seconds=0.5)
MinusHalfSecond(dt) ==
    IF dt.tick > 0 THEN [day |-> dt.day, tick |-> dt.tick - 1]
    ELSE [day |-> dt.day - 1, tick |-> TicksPerDay - 1]

WholeSecondsBetween_rounded(a, b) ==
    ((a.day - b.day) * TicksPerDay + a.tick - b.tick + 1) \div 2

\* int((a - b).total_seconds()) for a > b
WholeSecondsBetween(a, b) ==
    ((a.day - b.day) * TicksPerDay + a.tick - b.tick) \div 2

INVALID_DATE_THRESHOLD == [day |-> 0, tick |-> 0]

check_datetime_is_valid_only_once_past(dt, current) ==
    DatetimeLess(dt, current) /\ ~DatetimeLess(dt, INVALID_DATE_THRESHOLD)

check_datetime_is_valid_no_upper_bound(dt, current) ==
    ~DatetimeLess(dt, INVALID_DATE_THRESHOLD)

\* not (dt > datetime.now() or dt < INVALID_DATE_THRESHOLD)
check_datetime_is_valid(dt, current) ==
    ~(DatetimeLess(current, dt) \/ DatetimeLess(dt, INVALID_DATE_THRESHOLD))

\* datetime.strptime of the first two space-separated pieces, under the
\* format with .%f when with_fraction: ValueError unless they spell a date
\* and a time of that format
strptime(pieces, with_fraction) ==
    IF /\ Len(pieces) = 2
       /\ Len(pieces[1]) = 1 /\ pieces[1][1] \in DateChunks
       /\ IF with_fraction
          THEN /\ Len(pieces[2]) = 3
               /\ pieces[2][1] \in TimeChunks
               /\ pieces[2][2] = "."
               /\ pieces[2][3] \in FractionChunks
          ELSE /\ Len(pieces[2]) = 1
               /\ pieces[2][1] \in TimeChunks
    THEN [raised |-> "",
          value |-> [day |-> DayOfChunk(pieces[1][1]),
                     tick |-> TickOfChunk(pieces[2][1])
                              + (IF with_fraction
                                 THEN TickOfFraction(pieces[2][3]) ELSE 0)]]
    ELSE [raised |-> "ValueError"]

\* the datetime the string starts with, or None; current is datetime.now()
extract_datetime_from_string(input_string, current) ==
    LET pieces == Take(SplitOn(input_string, " "), 2)
        with_fraction == \E i \in 1..Len(input_string) : input_string[i] = "."
        parsed == strptime(pieces, with_fraction)
    IN  IF parsed.raised # "" THEN None
        ELSE IF check_datetime_is_valid(parsed.value, current)
        THEN Some(parsed.value)
        ELSE None

----------------------------------------------------------------------------
(* Log lines with a data mapping: the pieces between the "=" signs, each   *)
(* either a text or the text of a Python literal mapping. A value of the   *)
(* mapping is [int |-> n], [ms |-> <<days, ms of the day>>] (an int of     *)
(* milliseconds since the Unix epoch), [str |-> text] or [none |-> TRUE].  *)

IsDict(piece) == "dict" \in DOMAIN piece

ValueHasPoint(v) ==
    "str" \in DOMAIN v /\ \E i \in 1..Len(v.str) : v.str[i] = "."

\* the characters of a piece, as far as the builders look at them: a
\* mapping is kept as one chunk, with a point when a string in it has one
TextOfPiece(piece) ==
    IF IsDict(piece)
    THEN IF \E k \in DOMAIN piece.dict : ValueHasPoint(piece.dict[k])
         THEN <<"{", ".", "}">> ELSE <<"{}">>
    ELSE piece.text

TextOfLine(log_line) ==
    Join("=", [i \in 1..Len(log_line) |-> TextOfPiece(log_line[i])])

\* literal_eval(log_line.split('=')[1])
literal_eval_data(log_line) ==
    IF Len(log_line) < 2 THEN [raised |-> "IndexError"]
    ELSE IF ~IsDict(log_line[2]) THEN [raised |-> "ValueError"]
    ELSE [raised |-> "", value |-> log_line[2].dict]

\* dict.get(key, default)
Get(d, key, default) == IF key \in DOMAIN d THEN d[key] ELSE default

IsNone(v) == "none" \in DOMAIN v
IsStr(v) == "str" \in DOMAIN v
IsInt(v) == "int" \in DOMAIN v \/ "ms" \in DOMAIN v

PyNone == [none |-> TRUE]

\* bool(v)
Truthy(v) ==
    IF IsNone(v) THEN FALSE
    ELSE IF IsStr(v) THEN v.str # <<>>
    ELSE IF "int" \in DOMAIN v THEN v.int # 0
    ELSE TRUE

\* int(v)
PyInt(v) ==
    IF IsNone(v) THEN [raised |-> "TypeError"]
    ELSE IF IsStr(v) THEN PyIntOfText(v.str)
    ELSE IF "int" \in DOMAIN v THEN [raised |-> "", value |-> v.int]
    ELSE [raised |-> "", value |-> v.ms]

\* datetime.utcfromtimestamp(timestamp_ms / 1000).date(), as days since the
\* Unix epoch; None stays None
timestamp_to_date(timestamp_ms) ==
    IF IsNone(timestamp_ms) THEN [raised |-> "", value |-> None]
    ELSE IF IsStr(timestamp_ms) THEN [raised |-> "TypeError"]
    ELSE IF "ms" \in DOMAIN timestamp_ms
    THEN [raised |-> "", value |-> Some(timestamp_ms.ms[1])]
    ELSE [raised |-> "",
          value |-> Some(IF timestamp_ms.int >= 0 THEN 0 ELSE -1)]

PREFIXES ==
    { <<"m", "r">>, <<"m", "r", "s">>, <<"m", "i", "s", "s">>, <<"m", "s">>,
      <<"d", "r">>, <<"m", "r", ".">>, <<"m", "r", "s", ".">>,
      <<"m", "i", "s", "s", ".">>, <<"m", "s", ".">>, <<"d", "r", ".">> }

\* first_name and last_name of log_line_data.get('name')
NameOf(name) ==
    IF ~Truthy(name)
    THEN [raised |-> "", first_name |-> None, last_name |-> None]
    ELSE IF ~IsStr(name) THEN [raised |-> "AttributeError"]
    ELSE LET name_parts == SplitWhitespace(name.str)
         IN  IF name_parts = <<>> THEN [raised |-> "IndexError"]
             ELSE LET rest == IF Lower(name_parts[1]) \in PREFIXES
                              THEN Join(" ", Drop(name_parts, 1))
                              ELSE name.str
                      last == SplitWhitespace(rest)
                  IN  IF last = <<>> THEN [raised |-> "IndexError"]
                      ELSE [raised |-> "",
                            first_name |->
                                Some(SliceTo(rest, RFind(rest, " "))),
                            last_name |-> Some(last[Len(last)])]

MALE == <<"m", "a", "l", "e">>
FEMALE == <<"f", "e", "m", "a", "l", "e">>
OTHER_GENDER == <<"o", "t", "h", "e", "r">>

\* rider['gender'] of log_line_data.get('gender')
GenderOf(gender) ==
    IF ~Truthy(gender) THEN [raised |-> "", value |-> None]
    ELSE IF ~IsStr(gender) THEN [raised |-> "AttributeError"]
    ELSE IF Lower(gender.str) \notin {MALE, FEMALE}
    THEN [raised |-> "", value |-> Some(OTHER_GENDER)]
    ELSE [raised |-> "", value |-> Some(gender.str)]

\* the closing loop of get_rider_from_log_line: -1 becomes None
MinusOneToNone(field) == IF field = Some(-1) THEN None ELSE field

FirstRaised(results) ==
    LET bad == { i \in 1..Len(results) : results[i].raised # "" }
    IN  IF bad = {} THEN ""
        ELSE results[CHOOSE i \in bad : \A j \in bad : i <= j].raised

get_rider_from_log_line(log_line) ==
    LET data == literal_eval_data(log_line)
    IN  IF data.raised # "" THEN [raised |-> data.raised]
        ELSE
        LET d == data.value
            rider_id == PyInt(Get(d, "user_id", [int |-> -1]))
            name == NameOf(Get(d, "name", PyNone))
            birthdate == timestamp_to_date(Get(d, "date_of_birth", PyNone))
            height == PyInt(Get(d, "height_cm", [int |-> -1]))
            weight == PyInt(Get(d, "weight_kg", [int |-> -1]))
            gender == GenderOf(Get(d, "gender", PyNone))
            account_created ==
                timestamp_to_date(Get(d, "account_create_date", PyNone))
            raised == FirstRaised(<<rider_id, name, birthdate, height, weight,
                                    gender, account_created>>)
        IN  IF raised # "" THEN [raised |-> raised]
            ELSE [raised |-> "",
                  record |->
                    [rider_id |-> MinusOneToNone(Some(rider_id.value)),
                     first_name |-> name.first_name,
                     last_name |-> name.last_name,
                     birthdate |-> birthdate.value,
                     height |-> MinusOneToNone(Some(height.value)),
                     weight |-> MinusOneToNone(Some(weight.value)),
                     email |-> IF "email_address" \in DOMAIN d
                               THEN Some(d["email_address"]) ELSE None,
                     gender |-> gender.value,
                     account_created |-> account_created.value]]

get_ride_data_from_log_line(log_line, current) ==
    LET data == literal_eval_data(log_line)
    IN  IF data.raised # "" THEN [raised |-> data.raised]
        ELSE
        LET d == data.value
            rider_id == IF "user_id" \in DOMAIN d
                        THEN PyInt(d["user_id"])
                        ELSE [raised |-> "KeyError"]
            log_datetime ==
                extract_datetime_from_string(TextOfLine(log_line), current)
        IN  IF rider_id.raised \notin {"", "KeyError"}
            THEN [raised |-> rider_id.raised]
            ELSE [raised |-> "",
                  record |->
                    [rider_id |-> IF rider_id.raised = "KeyError" THEN None
                                  ELSE Some(rider_id.value),
                     start_time |-> IF log_datetime # None
                                    THEN Some(MinusHalfSecond(log_datetime[1]))
                                    ELSE None]]

get_address_from_log_line_second_line_from_three(log_line) ==
    LET data == literal_eval_data(log_line)
    IN  IF data.raised # "" THEN [raised |-> data.raised]
        ELSE IF "address" \notin DOMAIN data.value
        THEN [raised |-> "",
              record |-> [first_line |-> None, second_line |-> None,
                          city |-> None, postcode |-> None]]
        ELSE IF ~IsStr(data.value["address"])
        THEN [raised |-> "AttributeError"]
        ELSE LET address_lines == SplitOn(data.value["address"].str, ",")
                 n == Len(address_lines)
             IN  IF n < 2 THEN [raised |-> "IndexError"]
                 ELSE [raised |-> "",
                       record |->
                         [first_line |-> Some(Strip(address_lines[1])),
                          city |-> Some(Strip(address_lines[n - 1])),
                          postcode |-> Some(Strip(address_lines[n])),
                          second_line |->
                              IF n >= 3 THEN Some(Strip(address_lines[2]))
                              ELSE None]]

get_address_from_log_line(log_line) ==
    LET data == literal_eval_data(log_line)
    IN  IF data.raised # "" THEN [raised |-> data.raised]
        ELSE IF "address" \notin DOMAIN data.value
        THEN [raised |-> "",
              record |-> [first_line |-> None, second_line |-> None,
                          city |-> None, postcode |-> None]]
        ELSE IF ~IsStr(data.value["address"])
        THEN [raised |-> "AttributeError"]
        ELSE LET address_lines == SplitOn(data.value["address"].str, ",")
                 n == Len(address_lines)
             IN  IF n < 2 THEN [raised |-> "IndexError"]
                 ELSE [raised |-> "",
                       record |->
                         [first_line |-> Some(Strip(address_lines[1])),
                          city |-> Some(Strip(address_lines[n - 1])),
                          postcode |-> Some(Strip(address_lines[n])),
                          second_line |->
                              IF n = 4 THEN Some(Strip(address_lines[2]))
                              ELSE None]]

\* text.split('=')[1].strip(), then convert: IndexError without an "="
SecondOfEquals(text) ==
    LET parts == SplitOn(text, "=")
    IN  IF Len(parts) < 2 THEN [raised |-> "IndexError"]
        ELSE [raised |-> "", value |-> Strip(parts[2])]

IntAfterEquals(text) ==
    LET second == SecondOfEquals(text)
    IN  IF second.raised # "" THEN second ELSE PyIntOfText(second.value)

get_data_from_reading_line_pair(reading_line_pair, start_time, current) ==
    LET reading_lines == reading_line_pair
        first_segments == SplitOn(reading_lines[1], ";")
        resistance == IntAfterEquals(first_segments[Len(first_segments)])
        log_datetime == extract_datetime_from_string(reading_lines[1], current)
        elapsed_time ==
            IF log_datetime # None
                   /\ DatetimeLess(start_time[1], log_datetime[1])
            THEN Some(WholeSecondsBetween(log_datetime[1], start_time[1]))
            ELSE None
        partial == [resistance |-> IF resistance.raised = ""
                                   THEN Some(resistance.value) ELSE None,
                    elapsed_time |-> elapsed_time,
                    heart_rate |-> None, power |-> None, rpm |-> None]
    IN  IF resistance.raised \notin {"", "IndexError"}
        THEN [raised |-> resistance.raised]
        ELSE IF log_datetime # None /\ start_time = None
        THEN [raised |-> "TypeError"]
        ELSE IF Len(reading_lines) = 1
        THEN [raised |-> "", record |-> partial]
        ELSE
        LET str_attributes == SplitOn(reading_lines[2], ";")
            heart_rate == IntAfterEquals(str_attributes[1])
            all_parts == SplitOn(reading_lines[2], "=")
            power == PyFloatOfText(all_parts[Len(all_parts)])
            rpm == IF Len(str_attributes) < 2
                   THEN [raised |-> "IndexError"]
                   ELSE IntAfterEquals(str_attributes[2])
            raised == FirstRaised(<<heart_rate, power, rpm>>)
        IN  IF raised # "" THEN [raised |-> raised]
            ELSE [raised |-> "",
                  record |-> [partial EXCEPT
                                !.heart_rate = Some(heart_rate.value),
                                !.power = Some(power.value),
                                !.rpm = Some(rpm.value)]]

----------------------------------------------------------------------------
(* What the readings processed so far say, read off history and alerts *)

AbnormalAt(ride, i) ==
    reading_is_abnormal(RiderOf(ride), history[ride][i].heart_rate)

PastWarmUpAt(ride, i) == history[ride][i].elapsed_time > WarmUp

AlertsAt(ride, i) ==
    { k \in 1..Len(alerts) : alerts[k].ride = ride /\ alerts[k].at = i }

AlertsOf(ride) == { k \in 1..Len(alerts) : alerts[k].ride = ride }

\* the consecutive abnormal readings of the ride that end at reading i,
\* counted from the last normal reading or the last alert
RECURSIVE CountAt(_, _)
CountAt(ride, i) ==
    IF i = 0 \/ ~AbnormalAt(ride, i) THEN 0
    ELSE IF i > 1 /\ AlertsAt(ride, i - 1) # {} THEN 1
    ELSE CountAt(ride, i - 1) + 1

HeartRatesFrom(ride, first, last) ==
    [j \in 1..(last - first + 1) |-> history[ride][first + j - 1].heart_rate]

Classes(ride) ==
    [i \in 1..Len(history[ride]) |-> AbnormalAt(ride, i)]

\* the ride's readings processed alone, in their order: the streak left and
\* the alerts emitted
RECURSIVE Alone(_, _)
Alone(ride, n) ==
    IF n = 0 THEN [run |-> <<>>, out |-> <<>>]
    ELSE LET before == Alone(ride, n - 1)
             reading == history[ride][n]
             run == Extend(before.run, AbnormalAt(ride, n), reading.heart_rate)
             fired == Fires(run, reading.elapsed_time)
         IN  [run |-> Settle(run, fired),
              out |-> IF fired
                      THEN Append(before.out, [at |-> n, payload |-> run])
                      ELSE before.out]

\* the alerts of one ride, in the order they were emitted
RECURSIVE AlertsUpTo(_, _)
AlertsUpTo(ride, k) ==
    IF k = 0 THEN <<>>
    ELSE IF alerts[k].ride = ride
         THEN Append(AlertsUpTo(ride, k - 1),
                     [at |-> alerts[k].at, payload |-> alerts[k].payload])
         ELSE AlertsUpTo(ride, k - 1)

----------------------------------------------------------------------------
(* Claims about the tracker *)

\* C1 (as stated): an alert is emitted on a reading only if that reading
\* and the Threshold - 1 readings before it for the ride were all abnormal;
\* and the readings abnormal, abnormal, normal, abnormal, abnormal, abnormal
\* of one ride produce exactly one alert, on the sixth reading.
C1_AsStated ==
    /\ \A k \in 1..Len(alerts) :
         /\ alerts[k].at >= Threshold
         /\ \A i \in (alerts[k].at - Threshold + 1)..alerts[k].at :
               AbnormalAt(alerts[k].ride, i)
    /\ \A ride \in Rides :
         Classes(ride) = <<TRUE, TRUE, FALSE, TRUE, TRUE, TRUE>>
            => /\ Cardinality(AlertsOf(ride)) = 1
               /\ Cardinality(AlertsAt(ride, 6)) = 1

\* C1 (amended): an alert is emitted on a reading only if that reading and
\* the Threshold - 1 readings before it for the ride were all abnormal; the
\* readings abnormal, abnormal, normal, abnormal, abnormal, abnormal of one
\* ride produce exactly one alert, on the sixth reading, when the sixth
\* reading is past the warm-up, and no alert when it is not.
C1_AlertOnlyAfterThresholdRun ==
    /\ \A k \in 1..Len(alerts) :
         /\ alerts[k].at >= Threshold
         /\ \A i \in (alerts[k].at - Threshold + 1)..alerts[k].at :
               AbnormalAt(alerts[k].ride, i)
    /\ \A ride \in Rides :
         Classes(ride) = <<TRUE, TRUE, FALSE, TRUE, TRUE, TRUE>>
            => IF PastWarmUpAt(ride, 6)
               THEN /\ Cardinality(AlertsOf(ride)) = 1
                    /\ Cardinality(AlertsAt(ride, 6)) = 1
               ELSE AlertsOf(ride) = {}

C1_Witness ==
    \E ride \in Rides :
        /\ Classes(ride) = <<TRUE, TRUE, FALSE, TRUE, TRUE, TRUE>>
        /\ PastWarmUpAt(ride, 6)
        /\ Cardinality(AlertsAt(ride, 6)) = 1

\* C2: right after an alert the ride's streak is empty (Normal, count 0),
\* and when the Threshold readings that follow an alert of the ride are all
\* abnormal and the last of them is past the warm-up, a further alert is
\* emitted on that reading.
C2_AlertedIsNotTerminal ==
    \A k \in 1..Len(alerts) :
        LET ride == alerts[k].ride
            at == alerts[k].at
        IN  /\ at = Len(history[ride]) => streak[StreakKey(ride)] = <<>>
            /\ ( /\ at + Threshold <= Len(history[ride])
                 /\ \A i \in (at + 1)..(at + Threshold) : AbnormalAt(ride, i)
                 /\ PastWarmUpAt(ride, at + Threshold) )
               => AlertsAt(ride, at + Threshold) # {}

C2_Witness ==
    \E ride \in Rides :
        /\ AlertsAt(ride, Threshold) # {}
        /\ AlertsAt(ride, 2 * Threshold) # {}
        /\ streak[StreakKey(ride)] = <<>>

\* C3: no alert is emitted on a reading whose elapsed_time does not exceed
\* the warm-up, whatever the count; and a reading that brings the count to
\* the threshold or beyond with elapsed_time past the warm-up emits exactly
\* one alert.
C3_NoAlertDuringWarmUp ==
    \A ride \in Rides :
        \A i \in 1..Len(history[ride]) :
            /\ ~PastWarmUpAt(ride, i) => AlertsAt(ride, i) = {}
            /\ (CountAt(ride, i) >= Threshold /\ PastWarmUpAt(ride, i))
                 => Cardinality(AlertsAt(ride, i)) = 1

C3_Witness ==
    \E ride \in Rides :
        \E i \in 1..Len(history[ride]) :
            /\ CountAt(ride, i) >= Threshold
            /\ ~PastWarmUpAt(ride, i)
            /\ AlertsAt(ride, i) = {}
            /\ i < Len(history[ride])
            /\ Cardinality(AlertsAt(ride, i + 1)) = 1

\* C4: the payload of every alert is, in arrival order, the heart rates of
\* the consecutive abnormal readings of its ride that end at the reading
\* that triggered it, starting after the last normal reading or the last
\* alert of that ride; the message built from it reports the payload's
\* length and the same readings.
C4_PayloadIsTheStreak ==
    \A k \in 1..Len(alerts) :
        LET ride == alerts[k].ride
            at == alerts[k].at
            n == Len(alerts[k].payload)
        IN  /\ n = CountAt(ride, at)
            /\ n <= at
            /\ alerts[k].payload = HeartRatesFrom(ride, at - n + 1, at)
            /\ \A i \in (at - n + 1)..at : AbnormalAt(ride, i)
            /\ alerts[k].rider_id = RiderOf(ride).rider_id
            /\ alerts[k].email.raised = ""
                 => /\ alerts[k].email.count = n
                    /\ alerts[k].email.readings = alerts[k].payload

C4_Witness ==
    \E k \in 1..Len(alerts) :
        /\ alerts[k].payload = <<42, 0, 42, 0>>
        /\ alerts[k].at = 5
        /\ ~AbnormalAt(alerts[k].ride, 1)
        /\ alerts[k].email.count = 4
        /\ Len(history[2]) > 0

\* C5: whatever the interleaving, the streak left for each ride and the
\* alerts emitted for it are those of the ride's own readings processed
\* alone in their arrival order.
C5_RidesAreIsolated ==
    \A ride \in Rides :
        LET alone == Alone(ride, Len(history[ride]))
        IN  /\ streak[StreakKey(ride)] = alone.run
            /\ AlertsUpTo(ride, Len(alerts)) = alone.out

C5_Witness ==
    /\ AlertsOf(1) # {}
    /\ AlertsOf(2) # {}
    /\ \E k \in 2..Len(alerts) : alerts[k].ride # alerts[k - 1].ride

----------------------------------------------------------------------------
(* Claims about the heart-rate zone calculator *)

ClaimGenders == {Some("male"), Some("female"), Some("other"), None}

\* round to the nearest integer, a half going up: round(176.5) = 177
RoundHalfUp(num, den) == (2 * num + den) \div (2 * den)

\* the maximum of spec 4.5 for an age and a gender
MaxAsSpecified(age, gender) ==
    IF gender \in {Some("female"), Some("other"), None}
    THEN RoundHalfUp(20600 - 88 * age, 100)
    ELSE IF age < 40 THEN 220 - age
    ELSE RoundHalfUp(2080 - 7 * age, 10)

\* the minimum of spec 4.5 for an age of 18 or more and a gender
MinAsSpecified(age, gender) ==
    LET bracket == IF age <= 39 THEN 1 ELSE IF age <= 64 THEN 2 ELSE 3
    IN  IF gender = Some("male")
        THEN <<40, 47, 52>>[bracket]
        ELSE <<45, 52, 57>>[bracket]

\* C6: for every age and gender the maximum is round(206 - 0.88 age) for
\* female, other and null, round(220 - age) for male under 40 and
\* round(208 - 0.7 age) for male from 40 on, so that a male of 45 gets 177
\* and a female of 30 gets 180; pipeline and dashboard agree.
C6_MaxHeartRateAsSpecified ==
    (call.fn = "zone" /\ call.rider.gender \in ClaimGenders)
        => /\ call.max = MaxAsSpecified(call.age, call.rider.gender)
           /\ call.dashboard_max =
                  MaxAsSpecified(call.dashboard_age, call.rider.gender)
           /\ (call.age = 45 /\ call.rider.gender = Some("male"))
                  => call.max = 177
           /\ (call.age = 30 /\ call.rider.gender = Some("female"))
                  => call.max = 180

\* C7: from age 18 on the minimum is 45, 52, 57 for female, other and null
\* and 40, 47, 52 for male, over the brackets 18-39, 40-64 and 65+; in the
\* pipeline and in the dashboard.
C7_MinHeartRateTable ==
    (call.fn = "zone" /\ call.rider.gender \in ClaimGenders)
        => /\ call.age >= 18
                => call.min = MinAsSpecified(call.age, call.rider.gender)
           /\ call.dashboard_age >= 18
                => call.dashboard_min =
                       MinAsSpecified(call.dashboard_age, call.rider.gender)

C7_Witness ==
    /\ call.fn = "zone"
    /\ call.rider.gender = None
    /\ call.age = 39
    /\ call.min = 45
    /\ call.dashboard_min = 45

\* C8: a reading is abnormal exactly when its heart rate is 0 or lies
\* outside [min, max]; a non-zero heart rate equal to min or to max is
\* normal.
C8_AbnormalIffOutsideClosedRange ==
    call.fn = "abnormal"
        => /\ call.abnormal <=> ( \/ call.heart_rate = 0
                                  \/ call.heart_rate < call.min
                                  \/ call.heart_rate > call.max )
           /\ ( /\ call.heart_rate # 0
                /\ call.heart_rate \in {call.min, call.max} )
                => ~call.abnormal

C8_Witness ==
    /\ call.fn = "abnormal"
    /\ call.heart_rate = call.max
    /\ call.heart_rate # 0
    /\ ~call.abnormal

\* the age on a date: the calendar-year difference, less one when the
\* birthday has not yet occurred that year
AgeOn(birthdate, date) ==
    IF Month(date) > Month(birthdate)
           \/ (Month(date) = Month(birthdate) /\ Day(date) >= Day(birthdate))
    THEN Year(date) - Year(birthdate)
    ELSE Year(date) - Year(birthdate) - 1

\* C9: the age the bounds are computed from is the rider's age on the date
\* of the call, for every call a running process makes.
C9_AgeIsAgeOnTheDayOfTheCall ==
    call.fn = "zone"
        => /\ call.age = AgeOn(call.rider.birthdate, call.at)
           /\ call.dashboard_age = AgeOn(call.rider.birthdate, call.at)

----------------------------------------------------------------------------
(* The log units given to the builders *)

T1 == <<"2022-07-25", " ", "16:13:37", ".", "500000">>

StampTexts ==
    { T1,
      <<"2022-07-25", " ", "16:13:37">>,
      <<"2022-07-25", " ", "16:13:38", ".", "000000">>,
      <<"2022-07-26", " ", "00:00:00", ".", "000000">>,
      <<"1900-01-01", " ", "00:00:00", ".", "000000">>,
      <<"1899-12-31", " ", "16:13:37", ".", "500000">>,
      <<"2022-07-25">>,
      <<"garbled", " ", "16:13:37", ".", "500000">> }

ClockValues ==
    { StartOfClock,
      [day |-> 44765, tick |-> 116836],
      [day |-> 44766, tick |-> 0] }

Absent == [absent |-> TRUE]

\* the mapping with the keys that were given a value
MakeDict(choice) ==
    [k \in { k \in DOMAIN choice : "absent" \notin DOMAIN choice[k] }
        |-> choice[k]]

Str(text) == [str |-> text]

UserIdValues ==
    { Absent, [int |-> 815], Str(<<"815">>), Str(<<"abc">>), [int |-> -1],
      PyNone }

NameValues ==
    { Absent, PyNone, Str(<<>>), Str(<<" ">>),
      Str(<<"A", "l", " ", "B", "o">>),
      Str(<<"D", "r", ".", " ", "A", "l", " ", "E", "d", " ", "B", "o">>),
      Str(<<"D", "r", ".">>),
      Str(<<"m", "s", " ", "B", "o">>),
      Str(<<"A", "l">>),
      Str(<<"A", "l", " ", "B", "o", " ">>) }

GenderValues ==
    { Absent, PyNone, Str(<<>>), Str(MALE), Str(<<"M", "a", "l", "e">>),
      Str(<<"F", "E", "M", "A", "L", "E">>), Str(<<"x">>) }

HeightValues == { Absent, [int |-> 187], Str(<<"abc">>) }

BirthValues == { Absent, [ms |-> <<-3897, 0>>], Str(<<"1959-05-02">>) }

EmailValues == { Absent, Str(<<"al", "@", "x", ".", "com">>) }

AddressValues ==
    { Absent, PyNone,
      Str(<<"Nowhere">>),
      Str(<<"Town", ",", " ", "PC1">>),
      Str(<<"1 Road", ",", " ", "Town", ",", " ", "PC1">>),
      Str(<<"63 Studio", ",", "Nursery Avenue", ",", "London", ",",
            "LA1 34A">>),
      Str(<<"Flat 2", ",", "63 Studio", ",", "Nursery Avenue", ",",
            "London", ",", "LA1 34A">>) }

Prefix(stamp) == [text |-> stamp \o <<" ", "[SYSTEM]", " ", "data", " ">>]

\* the shapes of a data line: the mapping after the first "=", no "=" at
\* all, and something that is no literal after the "="
DataLines(stamp, d) ==
    { << Prefix(stamp), [dict |-> d] >>,
      << Prefix(stamp) >>,
      << Prefix(stamp), [text |-> <<" ", "{", "null", "}">>] >> }

RiderLines ==
    UNION { DataLines(T1, MakeDict(c)) :
            c \in [user_id : UserIdValues, name : NameValues,
                   gender : GenderValues, height_cm : HeightValues,
                   weight_kg : {[int |-> 76]},
                   date_of_birth : BirthValues,
                   email_address : EmailValues] }

AddressLines ==
    UNION { DataLines(T1, MakeDict(c)) :
            c \in [user_id : {[int |-> 815]}, address : AddressValues] }

RideLines ==
    UNION { DataLines(stamp, MakeDict(c)) :
            stamp \in StampTexts,
            c \in [user_id : UserIdValues, email_address : EmailValues] }

RideBodies ==
    { <<" ", "Ride", " ", "duration", " ", "=", " ", "1", ".", "0", ";",
        " ", "resistance">>,
      <<" ", "Ride", ";", " ", "resistance">> }

ResistanceTails ==
    { <<" ", "=", " ", "30">>, <<" ", "=", " ", "abc">>, <<" ", "=", " ">>,
      <<>> }

TelemetryBodies ==
    { <<" ", "Telemetry", " ", "hrt", " ", "=", " ", "76", ";", " ", "rpm",
        " ", "=", " ", "30", ";", " ", "power", " ", "=", " ", "5", ".",
        "5">>,
      <<" ", "Telemetry", " ", "hrt", " ", "=", " ", "0", ";", " ", "rpm",
        " ", "=", " ", "0", ";", " ", "power", " ", "=", " ", "0">>,
      <<" ", "Telemetry", " ", "hrt", " ", "=", " ", "abc", ";", " ", "rpm",
        " ", "=", " ", "30", ";", " ", "power", " ", "=", " ", "5", ".",
        "5">>,
      <<" ", "Telemetry", " ", "hrt", " ", "=", " ", "76">>,
      <<" ", "Telemetry", " ", "hrt", ";", " ", "rpm", " ", "=", " ", "30">>,
      <<" ", "Telemetry", " ", "hrt", " ", "=", " ", "76", ";", " ", "rpm",
        " ", "=", " ", "30", ";", " ", "power", " ", "=", " ", "high">> }

\* one line, or two joined by a newline
ReadingLinePairs ==
    LET first == { stamp \o body \o tail :
                   stamp \in StampTexts, body \in RideBodies,
                   tail \in ResistanceTails }
    IN  { << line >> : line \in first }
        \cup { << line, T1 \o body >> :
               line \in first, body \in TelemetryBodies }

StartTimes ==
    { Some([day |-> 44765, tick |-> 116833]),
      Some([day |-> 44765, tick |-> 116836]),
      None }

----------------------------------------------------------------------------
(* The builders called on log units while the clock advances *)

BuilderInit ==
    /\ today = <<StartYear, 3, 10>>
    /\ default_date = [pipeline |-> today, dashboard |-> today]
    /\ call = NoCall
    /\ TrackerIdle
    /\ BuildersIdle

Tick ==
    /\ built = NoBuild
    /\ \E t \in ClockValues : DatetimeLess(now, t) /\ now' = t
    /\ UNCHANGED <<today, default_date, call, streak, history, alerts, built>>

BuildRider ==
    /\ built = NoBuild
    /\ \E log_line \in RiderLines :
         built' = [builder |-> "rider", input |-> log_line, at |-> now,
                   result |-> get_rider_from_log_line(log_line)]
    /\ UNCHANGED <<today, default_date, call, streak, history, alerts, now>>

BuildAddress ==
    /\ built = NoBuild
    /\ \E log_line \in AddressLines :
         built' = [builder |-> "address", input |-> log_line, at |-> now,
                   result |-> get_address_from_log_line(log_line)]
    /\ UNCHANGED <<today, default_date, call, streak, history, alerts, now>>

BuildRide ==
    /\ built = NoBuild
    /\ \E log_line \in RideLines :
         built' = [builder |-> "ride", input |-> log_line, at |-> now,
                   result |-> get_ride_data_from_log_line(log_line, now)]
    /\ UNCHANGED <<today, default_date, call, streak, history, alerts, now>>

BuildReading ==
    /\ built = NoBuild
    /\ \E pair \in ReadingLinePairs, start_time \in StartTimes :
         built' = [builder |-> "reading", input |-> pair,
                   start_time |-> start_time, at |-> now,
                   result |-> get_data_from_reading_line_pair(
                                  pair, start_time, now)]
    /\ UNCHANGED <<today, default_date, call, streak, history, alerts, now>>

\* lines that start with a stamp, given to extract_datetime_from_string
ExtractTails ==
    { <<>>,
      <<" ", "mendoza">>,
      <<" ", "duration", " ", "=", " ", "1", ".", "0">> }

ExtractInputs ==
    { stamp \o tail : stamp \in StampTexts, tail \in ExtractTails }

ExtractDatetime ==
    /\ built = NoBuild
    /\ \E input_string \in ExtractInputs :
         built' = [builder |-> "extract", input |-> input_string, at |-> now,
                   result |-> [raised |-> "",
                               value |-> extract_datetime_from_string(
                                             input_string, now)]]
    /\ UNCHANGED <<today, default_date, call, streak, history, alerts, now>>

\* what the builder of a call returns for the same log unit at the instant t
RunAgain(b, t) ==
    CASE b.builder = "rider" -> get_rider_from_log_line(b.input)
      [] b.builder = "address" -> get_address_from_log_line(b.input)
      [] b.builder = "ride" -> get_ride_data_from_log_line(b.input, t)
      [] b.builder = "reading" ->
            get_data_from_reading_line_pair(b.input, b.start_time, t)

\* the same builder is run a second time on the same log unit, now or later
Rebuild ==
    /\ built.builder \in {"rider", "address", "ride", "reading"}
    /\ "rerun" \notin DOMAIN built
    /\ \E t \in ClockValues \cup {now} :
         /\ ~DatetimeLess(t, now)
         /\ now' = t
         /\ built' = [builder |-> built.builder, input |-> built.input,
                      at |-> built.at, result |-> built.result,
                      start_time |-> IF built.builder = "reading"
                                     THEN built.start_time ELSE None,
                      rerun |-> [at |-> t, result |-> RunAgain(built, t)]]
    /\ UNCHANGED <<today, default_date, call, streak, history, alerts>>

\* the record has been handed on
BuilderReturn ==
    /\ built # NoBuild
    /\ built' = NoBuild
    /\ UNCHANGED <<today, default_date, call, streak, history, alerts, now>>

BuilderNext ==
    \/ Tick
    \/ BuildRider
    \/ BuildAddress
    \/ BuildRide
    \/ BuildReading
    \/ ExtractDatetime
    \/ Rebuild
    \/ BuilderReturn

BuilderSpec == BuilderInit /\ [][BuilderNext]_vars

----------------------------------------------------------------------------
(* Claims about the record builders *)

\* C10: every builder returns a record for every log unit it is given and
\* never raises, whatever is malformed or missing in it.
C10_BuildersNeverRaise ==
    built.builder # "none" => built.result.raised = ""

----------------------------------------------------------------------------
(* Claims about extract_datetime_from_string *)

\* the datetimes the two leading space-separated tokens spell, under either
\* format
LeadingTokensParsed(input_string) ==
    LET pieces == Take(SplitOn(input_string, " "), 2)
    IN  { strptime(pieces, f).value :
          f \in { g \in BOOLEAN : strptime(pieces, g).raised = "" } }

\* C11 as stated: a timestamp is returned only if the two leading tokens
\* parse to a t with 1900-01-01 00:00:00 < t <= now; every other line, the
\* one stamped exactly 1900-01-01 00:00:00 included, gives absent.
C11_AsStated ==
    (built.builder = "extract" /\ built.result.value # None)
        => \E t \in LeadingTokensParsed(built.input) :
              /\ DatetimeLess(INVALID_DATE_THRESHOLD, t)
              /\ ~DatetimeLess(built.at, t)

\* C11, amended: a timestamp is returned only if the two leading tokens
\* parse to a t with 1900-01-01 00:00:00 <= t <= now, both bounds
\* inclusive; a t before 1900-01-01 00:00:00 or after now gives absent.
C11_TimestampOnlyInsideClosedWindow ==
    (built.builder = "extract" /\ built.result.value # None)
        => \E t \in LeadingTokensParsed(built.input) :
              /\ ~DatetimeLess(t, INVALID_DATE_THRESHOLD)
              /\ ~DatetimeLess(built.at, t)

\* the line stamped exactly 1900-01-01 00:00:00 has been extracted and its
\* timestamp returned
C11_Witness ==
    /\ built.builder = "extract"
    /\ built.result.value = Some(INVALID_DATE_THRESHOLD)
    /\ LeadingTokensParsed(built.input) = {INVALID_DATE_THRESHOLD}

----------------------------------------------------------------------------
(* Claims about the rider, address and reading builders *)

\* the log line carries a mapping in which key is a string
TextGiven(log_line, key) ==
    /\ Len(log_line) >= 2
    /\ IsDict(log_line[2])
    /\ key \in DOMAIN log_line[2].dict
    /\ IsStr(log_line[2].dict[key])

TextAt(log_line, key) == log_line[2].dict[key].str

\* the whitespace-delimited tokens of a name that remain once a leading
\* honorific is dropped
RemainingTokens(name) ==
    LET tokens == SplitWhitespace(name)
    IN  IF tokens # <<>> /\ Lower(tokens[1]) \in PREFIXES
        THEN Drop(tokens, 1) ELSE tokens

\* C12: when the name that remains after honorific stripping is a single
\* token, the Rider record has first_name and last_name identical and both
\* equal to that token.
C12_SingleTokenNameIsBothNames ==
    ( /\ built.builder = "rider"
      /\ built.result.raised = ""
      /\ TextGiven(built.input, "name")
      /\ Len(RemainingTokens(TextAt(built.input, "name"))) = 1 )
    => LET token == RemainingTokens(TextAt(built.input, "name"))[1]
       IN  /\ built.result.record.first_name = Some(token)
           /\ built.result.record.last_name = Some(token)

\* the name without its leading honorific, as one string
Remainder(name) ==
    LET tokens == SplitWhitespace(name)
    IN  IF Lower(tokens[1]) \in PREFIXES
        THEN Join(" ", Drop(tokens, 1)) ELSE name

\* all of the text before its last space; all of it when it has no space
BeforeLastSpace(text) ==
    LET spaces == { i \in 1..Len(text) : text[i] = " " }
    IN  IF spaces = {} THEN text
        ELSE Take(text, (CHOOSE i \in spaces : \A j \in spaces : j <= i) - 1)

NameAbsent(log_line) ==
    /\ Len(log_line) >= 2
    /\ IsDict(log_line[2])
    /\ \/ "name" \notin DOMAIN log_line[2].dict
       \/ IsNone(log_line[2].dict["name"])

\* C13: for a name of two or more tokens the Rider record has last_name =
\* the final token of the name without its leading honorific and first_name
\* = all of that remainder before its last space; an absent name gives
\* first_name and last_name both null.
C13_NamesOfTheRemainder ==
    (built.builder = "rider" /\ built.result.raised = "")
    => /\ NameAbsent(built.input)
          => /\ built.result.record.first_name = None
             /\ built.result.record.last_name = None
       /\ ( /\ TextGiven(built.input, "name")
            /\ Len(SplitWhitespace(TextAt(built.input, "name"))) >= 2 )
          => LET rest == Remainder(TextAt(built.input, "name"))
                 tokens == SplitWhitespace(rest)
             IN  /\ built.result.record.last_name = Some(tokens[Len(tokens)])
                 /\ built.result.record.first_name
                        = Some(BeforeLastSpace(rest))

\* the comma-separated segments of an address, each trimmed
Segments(address) ==
    LET raw == SplitOn(address, ",")
    IN  [i \in 1..Len(raw) |-> Strip(raw[i])]

\* C14: an address of k >= 2 comma-separated segments gives first_line =
\* segment 1, city = segment k-1, postcode = segment k, and second_line =
\* segment 2 exactly when k = 4, null otherwise; a log unit with no address
\* field gives four nulls.
C14_AddressBySegmentCount ==
    built.builder = "address"
    => /\ ( /\ Len(built.input) >= 2
            /\ IsDict(built.input[2])
            /\ "address" \notin DOMAIN built.input[2].dict )
          => /\ built.result.raised = ""
             /\ built.result.record
                    = [first_line |-> None, second_line |-> None,
                       city |-> None, postcode |-> None]
       /\ ( /\ TextGiven(built.input, "address")
            /\ Len(Segments(TextAt(built.input, "address"))) >= 2 )
          => LET segment == Segments(TextAt(built.input, "address"))
                 k == Len(segment)
             IN  /\ built.result.raised = ""
                 /\ built.result.record.first_line = Some(segment[1])
                 /\ built.result.record.city = Some(segment[k - 1])
                 /\ built.result.record.postcode = Some(segment[k])
                 /\ built.result.record.second_line
                        = IF k = 4 THEN Some(segment[2]) ELSE None

\* an address of four segments has been built, with its second line
C14_Witness ==
    /\ built.builder = "address"
    /\ TextGiven(built.input, "address")
    /\ Len(Segments(TextAt(built.input, "address"))) = 4
    /\ built.result.raised = ""
    /\ built.result.record.second_line = Some(<<"Nursery Avenue">>)
    /\ built.result.record.city = Some(<<"London">>)

\* C15: the gender of every Rider record is one of male, female, other or
\* null; a missing gender gives null, and a gender text in any letter case
\* is mapped into that set, never passed through unchanged.
C15_GenderInClosedSet ==
    (built.builder = "rider" /\ built.result.raised = "")
    => /\ built.result.record.gender
              \in {Some(MALE), Some(FEMALE), Some(OTHER_GENDER), None}
       /\ "gender" \notin DOMAIN built.input[2].dict
              => built.result.record.gender = None

\* the half seconds from b to a
HalfSecondsFrom(b, a) == (a.day - b.day) * TicksPerDay + a.tick - b.tick

\* C16: the elapsed_time of every Reading record is null or a non-negative
\* whole number of seconds: the whole seconds from the ride's start_time to
\* the first line's timestamp when that timestamp is valid and strictly
\* after start_time, and null when it is unparseable, implausible or not
\* strictly after start_time.
C16_ElapsedTimeNullOrWholeSeconds ==
    (built.builder = "reading" /\ built.result.raised = "")
    => LET stamp == extract_datetime_from_string(built.input[1], built.at)
           elapsed_time == built.result.record.elapsed_time
       IN  IF /\ stamp # None
              /\ built.start_time # None
              /\ DatetimeLess(built.start_time[1], stamp[1])
           THEN /\ elapsed_time # None
                /\ elapsed_time[1] \in Nat
                /\ 2 * elapsed_time[1]
                      <= HalfSecondsFrom(built.start_time[1], stamp[1])
                /\ HalfSecondsFrom(built.start_time[1], stamp[1])
                      < 2 * elapsed_time[1] + 2
           ELSE elapsed_time = None

\* a reading half a second after the start of its ride has been built:
\* zero whole seconds have elapsed
C16_Witness ==
    /\ built.builder = "reading"
    /\ built.result.raised = ""
    /\ built.start_time # None
    /\ extract_datetime_from_string(built.input[1], built.at) # None
    /\ HalfSecondsFrom(built.start_time[1],
          extract_datetime_from_string(built.input[1], built.at)[1]) = 1
    /\ built.result.record.elapsed_time = Some(0)

----------------------------------------------------------------------------
(* Claims about running a builder again *)

\* the line whose leading stamp the builder of a call reads
StampedLine(b) ==
    IF b.builder = "reading" THEN b.input[1] ELSE TextOfLine(b.input)

\* C17 as stated: a builder run twice on the same log unit, at any two
\* points in time, yields identical records.
C17_AsStated ==
    "rerun" \in DOMAIN built => built.rerun.result = built.result

\* C17, amended: the rider and address builders yield identical records
\* whenever they are run again, and the ride and reading builders do so
\* whenever the leading timestamp of the log unit is not later than the
\* instant of the first run.
C17_SameRecordUnlessStampWasAhead ==
    "rerun" \in DOMAIN built
    => \/ built.rerun.result = built.result
       \/ /\ built.builder \in {"ride", "reading"}
          /\ \E t \in LeadingTokensParsed(StampedLine(built)) :
                DatetimeLess(built.at, t)

\* a ride line stamped with the instant of its first run has been built
\* again later, with the same start_time
C17_Witness ==
    /\ "rerun" \in DOMAIN built
    /\ built.builder = "ride"
    /\ DatetimeLess(built.at, built.rerun.at)
    /\ LeadingTokensParsed(StampedLine(built)) = {built.at}
    /\ built.result.raised = ""
    /\ built.result.record.start_time = Some(MinusHalfSecond(built.at))
    /\ built.rerun.result = built.result

----------------------------------------------------------------------------
(* Claims about send_email and the minimum heart rate of the young *)

\* C18: send_email assembles the greeting without raising for every gender
\* a Rider record may hold: male, female, other, null, or a text that is
\* none of the three lower-case keys of GENDER_TITLES.
C18_GreetingForEveryGender ==
    call.fn = "send_email" => call.email.raised = ""

\* a rider of the given gender who turned age on the first of January of
\* the year of date
RiderAged(age, gender, date) ==
    [birthdate |-> <<Year(date) - age, 1, 1>>, gender |-> gender]

\* C19: below age 18 the minimum is the floor of the 65+ bracket, 57 for
\* female, other and null and 52 for male, which is higher than the minimum
\* of every age from 18 to 39; in the pipeline and in the dashboard.
C19_MinimumOfTheYoungIsTheOldest ==
    (call.fn = "zone" /\ call.rider.gender \in ClaimGenders)
        => /\ call.age < 18
                => /\ call.min
                        = IF call.rider.gender = Some("male") THEN 52 ELSE 57
                   /\ call.min = MinAsSpecified(65, call.rider.gender)
                   /\ \A adult \in 18..39 :
                         calculate_min_heart_rate(
                             RiderAged(adult, call.rider.gender,
                                       default_date.pipeline),
                             default_date.pipeline) < call.min
           /\ call.dashboard_age < 18
                => /\ call.dashboard_min
                        = IF call.rider.gender = Some("male") THEN 52 ELSE 57
                   /\ call.dashboard_min
                        = MinAsSpecified(65, call.rider.gender)
                   /\ \A adult \in 18..39 :
                         dashboard_calculate_min_heart_rate(
                             RiderAged(adult, call.rider.gender,
                                       default_date.dashboard),
                             default_date.dashboard) < call.dashboard_min

\* the bounds of a male rider of 17 have been computed
C19_Witness ==
    /\ call.fn = "zone"
    /\ call.rider.gender = Some("male")
    /\ call.age = 17
    /\ call.dashboard_age = 17
    /\ call.min = 52
    /\ call.dashboard_min = 52

=============================================================================
